---- MODULE Spec2Model ----
(***************************************************************************)
(* Model of nearest_neighbor_heuristic (src/heuristic_algorithm.py): the   *)
(* greedy, capacity-aware, multi-trip route construction, its objective    *)
(* accounting, the round-robin fleet assignment and the value returned;    *)
(* and of naive_single_delivery (src/naive_algorithm.py), the baseline     *)
(* that serves one customer per trip.                                      *)
(*                                                                         *)
(* Numbers.  Quantities (demand, capacity, load) are integer multiples of  *)
(* a unit that is an input of the run: "micro" (1e-6, so the tolerance     *)
(* 1e-6 of the code is 1 unit) or "whole" (1, so a comparison with 1e-6 is *)
(* a comparison with 0 on integers).  Times are minutes; the speeds drawn  *)
(* divide 60, so dist / speed * 60 is an exact integer.  float('inf') is   *)
(* the value Inf.  Arithmetic is that of the reals: rounding of floats is  *)
(* not modelled.                                                           *)
(***************************************************************************)
EXTENDS Integers, Sequences, FiniteSets, TLC

\* ------------------------------------------------------------ bounds
MaxDemand == 3
MaxCap == 3
MaxCoord == 2
MaxRate == 1
MaxVehicles == 3
MaxCompTime == 1
\* A trip that serves nobody leaves the unvisited set and the remaining
\* demand as they were, so every later trip serves nobody either.  The
\* printed trip counter counts up to IdleCap such trips and then stays.
IdleCap == 2
\* instance files in the folder of run_experiments
MaxFiles == 2

\* range(1, 6): the vehicles of the printed assignment and of the chart
ReportedVehicles == 5

\* float('inf'), the distance of a pair missing from distance_matrix
Inf == -1

VARIABLES
    unit,                \* "micro" | "whole": what one unit of quantity is
    distance_matrix, demand_dict, capacity, speed, unload_t_per_unit,
    pc,
    unvisited_customers, remaining_demand,
    routes, total_travel_time, total_unload_time, trips_made_count,
    current_route, current_load, current_location,
    route_travel_time, route_unload_time,
    deliveries,          \* the "Visited .. Delivered .." lines, per trip with a visit
    V_count, vehicle_trip_assignments, output_vehicle_routes_for_1_to_5,
    vehicle_total_times, total_objective_value, ret,
    \* naive_single_delivery: V_size is len(V); naive_i is the i of line 9
    V_size, naive_pc, naive_i, naive_rem, routes_by_vehicle, vehicle_idx,
    total_unload, naive_ret,
    \* run_experiments: the flags, the number of instance files, the values of
    \* lines 65-67 for the instance at hand, and the rows of lines 88-98
    runner_pc, include_heuristic, include_naive_heuristic, include_optimal,
    n_files, row, results

inputs == <<unit, distance_matrix, demand_dict, capacity, speed,
            unload_t_per_unit>>
tripVars == <<current_route, current_load, current_location,
              route_travel_time, route_unload_time>>
globalVars == <<unvisited_customers, remaining_demand, routes,
                total_travel_time, total_unload_time, trips_made_count,
                deliveries>>
reportVars == <<V_count, vehicle_trip_assignments,
                output_vehicle_routes_for_1_to_5, vehicle_total_times,
                total_objective_value, ret>>
naiveVars == <<V_size, naive_pc, naive_i, naive_rem, routes_by_vehicle,
               vehicle_idx, total_unload, naive_ret>>
runnerVars == <<runner_pc, include_heuristic, include_naive_heuristic,
                include_optimal, n_files, row, results>>
vars == <<inputs, pc, tripVars, globalVars, reportVars, naiveVars, runnerVars>>

\* ------------------------------------------------------------ numbers
\* the tolerance 1e-6, in units of quantity
Eps == IF unit = "micro" THEN 1 ELSE 0

IsInf(x) == x = Inf
\* mutant of Lt: the comparison the other way round
Lt_Reversed(a, b) == ~IsInf(a) /\ (IsInf(b) \/ a > b)

\* mutant of Lt: a customer at the same distance replaces the one kept
Lt_OrEqual(a, b) == ~IsInf(a) /\ (IsInf(b) \/ a <= b)

\* a < b on floats that may be inf
Lt(a, b) == ~IsInf(a) /\ (IsInf(b) \/ a < b)
\* a + b on floats that may be inf (no -inf, no nan arises)
Plus(a, b) == IF IsInf(a) \/ IsInf(b) THEN Inf ELSE a + b
\* mutant of Min: the first argument whatever the second
Min_First(a, b) == a

Min(a, b) == IF a <= b THEN a ELSE b

\* ------------------------------------------------------------ inputs
\* range(S_size): the instances drawn have the depot and two customers
S == 0 .. 2
Speeds == {30, 60}
Units == {"micro", "whole"}

Abs(x) == IF x < 0 THEN 0 - x ELSE x

\* Nodes on a line, the depot at 0; `missing` is the set of pairs absent
\* from the matrix.  Self pairs are present with distance 0.
LineDistances(coord, missing) ==
    [p \in (S \X S) \ missing |-> Abs(coord[p[1]] - coord[p[2]])]

Coords == {c \in [S -> 0 .. MaxCoord] : c[0] = 0 /\ \A n \in S \ {0} : c[n] >= 1}

\* Nothing missing, one node isolated (no pair to or from it), or one
\* ordered pair missing.
MissingChoices ==
    {{}}
    \cup {{p \in S \X S : p[1] # p[2] /\ (p[1] = n \/ p[2] = n)} : n \in S \ {0}}
    \cup {{p} : p \in {q \in S \X S : q[1] # q[2]}}

DistanceMatrices ==
    {LineDistances(c, m) : c \in Coords, m \in MissingChoices}

\* every customer with an entry, or the empty map
DemandDicts == [S \ {0} -> 0 .. MaxDemand] \cup {<<>>}

\* ------------------------------------------------------------ helpers
RECURSIVE SumSeq(_)
SumSeq(q) == IF q = <<>> THEN 0 ELSE Head(q) + SumSeq(Tail(q))

\* mutant of CallersDemand: the routine writes to the caller's map itself
CallersDemand_Aliased(demand, private) == private

\* demand_dict.copy() (line 45) and demand.copy() (naive_algorithm.py line 4):
\* the map the routine writes to is its own, so after a write that made it
\* `private` the caller's map is still `demand`.
CallersDemand(demand, private) == demand

get_travel_time(node1, node2) ==
    LET dist == IF <<node1, node2>> \in DOMAIN distance_matrix
                THEN distance_matrix[<<node1, node2>>] ELSE Inf
    IN  IF IsInf(dist) THEN Inf ELSE (dist * 60) \div speed

\* mutant of Customers: the depot is not left out
Customers_WithDepot(dd) ==
    {node \in S : node \in DOMAIN dd /\ dd[node] > Eps}

\* mutant of Customers: demand compared with 0 instead of the tolerance
Customers_NoTolerance(dd) ==
    {node \in S : node # 0 /\ node \in DOMAIN dd /\ dd[node] > 0}

\* lines 43-44
Customers(dd) ==
    {node \in S : node # 0 /\ node \in DOMAIN dd /\ dd[node] > Eps}

\* The order in which line 82 iterates over the set, given as an order of
\* all the nodes the set could hold.  A set of small integers is iterated in
\* ascending order; for any other order, renaming the customers gives this
\* one, and the inputs drawn are closed under renaming.
iterOrder == [i \in 1 .. Cardinality(S) |-> i - 1]

\* The scan of lines 79-89 over the set in its iteration order: `best` is a
\* record [found, node, dist], kept when the next customer is not strictly
\* nearer.
RECURSIVE Scan(_, _)
Scan(i, best) ==
    IF i > Len(iterOrder) THEN best
    ELSE LET customer_node == iterOrder[i]
             rem == IF customer_node \in DOMAIN remaining_demand
                    THEN remaining_demand[customer_node] ELSE 0
             dist == IF <<current_location, customer_node>> \in DOMAIN distance_matrix
                     THEN distance_matrix[<<current_location, customer_node>>]
                     ELSE Inf
         IN  IF customer_node \in unvisited_customers
                /\ rem > Eps
                /\ Lt(dist, best.dist)
                /\ current_load < capacity - Eps
             THEN Scan(i + 1, [found |-> TRUE, node |-> customer_node, dist |-> dist])
             ELSE Scan(i + 1, best)

BestNext == Scan(1, [found |-> FALSE, node |-> 0, dist |-> Inf])

\* ------------------------------------------------------------ Init
\* naive_single_delivery is not called in this run
NaiveNotCalled ==
    /\ V_size = 0
    /\ naive_pc = "idle"
    /\ naive_i = 0
    /\ naive_rem = <<>>
    /\ routes_by_vehicle = <<>>
    /\ vehicle_idx = 0
    /\ total_unload = 0
    /\ naive_ret = <<>>

\* run_experiments lines 65-67: no value yet for the instance at hand; a
\* value v is held as <<v>>, None as <<>>
EmptyRow ==
    [obj_heuristic |-> <<>>, time_heuristic |-> <<>>, obj_naive |-> <<>>,
     obj_optimal |-> <<>>]

\* the routine is called directly, not by run_experiments
RunnerNotCalled ==
    /\ runner_pc = "idle"
    /\ include_heuristic = FALSE
    /\ include_naive_heuristic = FALSE
    /\ include_optimal = FALSE
    /\ n_files = 0
    /\ row = EmptyRow
    /\ results = <<>>

\* lines 43-51: the routine's state at its first loop test
StartOfCall ==
    /\ unvisited_customers = Customers(demand_dict)
    /\ remaining_demand = demand_dict
    /\ routes = <<>>
    /\ total_travel_time = 0
    /\ total_unload_time = 0
    /\ trips_made_count = 0
    /\ current_route = <<>>
    /\ current_load = 0
    /\ current_location = 0
    /\ route_travel_time = 0
    /\ route_unload_time = 0
    /\ deliveries = <<>>
    /\ V_count = 0
    /\ vehicle_trip_assignments = <<>>
    /\ output_vehicle_routes_for_1_to_5 = <<>>
    /\ vehicle_total_times = <<>>
    /\ total_objective_value = 0
    /\ ret = <<>>
    /\ pc = "while"
    /\ NaiveNotCalled
    /\ RunnerNotCalled

Init ==
    /\ unit \in Units
    /\ distance_matrix \in DistanceMatrices
    /\ demand_dict \in DemandDicts
    /\ capacity \in 0 .. MaxCap
    /\ speed \in Speeds
    /\ unload_t_per_unit \in 0 .. MaxRate
    /\ StartOfCall

\* ------------------------------------------------------------ actions
\* line 54 true, lines 55-76: a new trip starts at the depot.  The counter is
\* only printed; it is exact until IdleCap trips have served nobody.
StartTrip ==
    /\ pc = "while"
    /\ unvisited_customers # {}
    /\ trips_made_count' = Min(trips_made_count + 1, Len(routes) + IdleCap)
    /\ current_route' = <<0>>
    /\ current_load' = 0
    /\ current_location' = 0
    /\ route_travel_time' = 0
    /\ route_unload_time' = 0
    /\ pc' = "select"
    /\ UNCHANGED <<runnerVars, inputs, naiveVars, unvisited_customers, remaining_demand, routes,
                   total_travel_time, total_unload_time, deliveries, reportVars>>

\* line 54 false on entry: no customer has demand > 1e-6
SkipLoop ==
    /\ pc = "while"
    /\ unvisited_customers = {}
    /\ pc' = "after"
    /\ UNCHANGED <<runnerVars, inputs, naiveVars, tripVars, globalVars, reportVars>>

\* mutant of UnloadedAmount: one unit of quantity at every visit
UnloadedAmount_OneUnit(can_unload, demand_at_customer) == 1

\* mutants of UnloadedAmount: the whole room of the vehicle is unloaded, or
\* the whole demand whatever the room
UnloadedAmount_AllRoom(can_unload, demand_at_customer) == can_unload
UnloadedAmount_AllDemand(can_unload, demand_at_customer) == demand_at_customer

\* min(can_unload, demand_at_customer), line 103
UnloadedAmount(can_unload, demand_at_customer) ==
    Min(can_unload, demand_at_customer)

\* mutant of FullyServed: served only at exactly zero
FullyServed_ExactZero(rem) == rem = 0

\* mutant of FullyServed: a remaining demand equal to the tolerance is not served
FullyServed_StrictlyBelow(rem) == rem < Eps

\* mutant of FullyServed: a customer counts as served after any delivery
FullyServed_AfterAnyVisit(rem) == TRUE

\* the test of line 116
FullyServed(rem) == rem <= Eps

\* mutant of TripEnds: the vehicle goes back to the depot after every visit
TripEnds_AfterEveryVisit(load, unvisited) == TRUE

\* the test of line 120
TripEnds(load, unvisited) == load >= capacity - Eps \/ unvisited = {}

\* lines 79-122 with best_next_customer not None: travel, deliver, and leave
\* the inner loop when the load is at capacity or nobody is left.
Visit ==
    /\ pc = "select"
    /\ BestNext.found
    /\ LET best_next_customer == BestNext.node
           segment_travel_time == get_travel_time(current_location, best_next_customer)
           can_unload == capacity - current_load
           demand_at_customer == remaining_demand[best_next_customer]
           unloaded_amount == UnloadedAmount(can_unload, demand_at_customer)
           new_rem == demand_at_customer - unloaded_amount
           new_unvisited == IF FullyServed(new_rem)
                            THEN unvisited_customers \ {best_next_customer}
                            ELSE unvisited_customers
           entry == <<best_next_customer, unloaded_amount>>
       IN  /\ route_travel_time' = Plus(route_travel_time, segment_travel_time)
           /\ current_location' = best_next_customer
           /\ current_route' = Append(current_route, best_next_customer)
           /\ current_load' = current_load + unloaded_amount
           /\ remaining_demand' =
                  [remaining_demand EXCEPT ![best_next_customer] = new_rem]
           /\ route_unload_time' =
                  route_unload_time + unload_t_per_unit * unloaded_amount
           /\ deliveries' =
                  IF Len(current_route) = 1
                  THEN Append(deliveries, <<entry>>)
                  ELSE [deliveries EXCEPT ![Len(deliveries)] = Append(@, entry)]
           /\ unvisited_customers' = new_unvisited
           /\ pc' = IF TripEnds(current_load + unloaded_amount, new_unvisited)
                    THEN "close" ELSE "select"
    /\ demand_dict' = CallersDemand(demand_dict, remaining_demand')
    /\ UNCHANGED <<runnerVars, unit, distance_matrix, capacity, speed, unload_t_per_unit,
                   naiveVars, routes, total_travel_time, total_unload_time,
                   trips_made_count, reportVars>>

\* lines 123-126: no suitable next customer
NoCandidate ==
    /\ pc = "select"
    /\ ~BestNext.found
    /\ pc' = "close"
    /\ UNCHANGED <<runnerVars, inputs, naiveVars, tripVars, globalVars, reportVars>>

\* mutant of KeepTrip: every trip started is kept
KeepTrip_Always(route) == TRUE

\* the test of line 135
KeepTrip(route) == Len(route) > 2

\* mutant of ClosedRoute: the depot is not appended
ClosedRoute_NoDepot(route, location) == route

\* lines 128-132: the route with its return leg
ClosedRoute(route, location) ==
    IF location # 0 THEN Append(route, 0) ELSE route

\* mutant of ClosedTime: the return leg not counted
ClosedTime_NoReturnLeg(time, location) == time

\* lines 128-130: the trip's travel time with its return leg
ClosedTime(time, location) ==
    IF location # 0 THEN Plus(time, get_travel_time(location, 0)) ELSE time

\* lines 128-146: the return leg, the trip kept or dropped, the loop exit
CloseTrip ==
    /\ pc = "close"
    /\ LET closed_route == ClosedRoute(current_route, current_location)
           closed_time == ClosedTime(route_travel_time, current_location)
       IN  /\ current_route' = closed_route
           /\ route_travel_time' = closed_time
           /\ IF KeepTrip(closed_route)
              THEN /\ routes' = Append(routes, closed_route)
                   /\ total_travel_time' = Plus(total_travel_time, closed_time)
                   /\ total_unload_time' = total_unload_time + route_unload_time
              ELSE UNCHANGED <<routes, total_travel_time, total_unload_time>>
    /\ pc' = IF unvisited_customers = {} THEN "after" ELSE "while"
    /\ UNCHANGED <<runnerVars, inputs, naiveVars, current_load, current_location, route_unload_time,
                   unvisited_customers, remaining_demand, trips_made_count,
                   deliveries, reportVars>>

\* mutant of AssignedVehicle: the index shifted by one
AssignedVehicle_Shifted(trip_idx, num_physical_vehicles) ==
    ((trip_idx + 1) % num_physical_vehicles) + 1

\* line 193: the vehicle of the trip at 0-based index trip_idx
AssignedVehicle(trip_idx, num_physical_vehicles) ==
    (trip_idx % num_physical_vehicles) + 1

\* lines 186-195: vehicle number -> its trips, in the order they are appended
RECURSIVE AssignFrom(_, _, _)
AssignFrom(trip_idx, num_physical_vehicles, acc) ==
    IF trip_idx >= Len(routes) THEN acc
    ELSE LET v == AssignedVehicle(trip_idx, num_physical_vehicles)
         IN  AssignFrom(trip_idx + 1, num_physical_vehicles,
                        [acc EXCEPT ![v] = Append(@, routes[trip_idx + 1])])

VehicleTripAssignments(num_physical_vehicles) ==
    IF num_physical_vehicles > 0
    THEN AssignFrom(0, num_physical_vehicles,
                    [i \in 1 .. num_physical_vehicles |-> <<>>])
    ELSE <<>>

\* lines 197-200
OutputVehicleRoutes(vta) ==
    [i \in 1 .. ReportedVehicles |-> IF i \in DOMAIN vta THEN vta[i] ELSE <<>>]

\* lines 220-225: the travel time of one node sequence
RECURSIVE TripTravelTime(_, _)
TripTravelTime(trip_node_sequence, i_segment) ==
    IF i_segment >= Len(trip_node_sequence) THEN 0
    ELSE Plus(get_travel_time(trip_node_sequence[i_segment],
                              trip_node_sequence[i_segment + 1]),
              TripTravelTime(trip_node_sequence, i_segment + 1))

\* lines 218-229: the total of one vehicle's trips
RECURSIVE VehicleTotal(_, _)
VehicleTotal(vehicle_routes_nodes, k) ==
    IF k > Len(vehicle_routes_nodes) THEN 0
    ELSE Plus(TripTravelTime(vehicle_routes_nodes[k], 1),
              VehicleTotal(vehicle_routes_nodes, k + 1))

\* mutant of Objective: the unload time left out
Objective_TravelOnly(travel, unload) == travel

\* line 157
Objective(travel, unload) == Plus(travel, unload)

\* mutant of ReturnValue: the two values in the other order
ReturnValue_Swapped(total_objective, comp_time) == <<comp_time, total_objective>>

\* line 302
ReturnValue(total_objective, comp_time) == <<total_objective, comp_time>>

\* mutant of Return: the objective is that of vehicle 1's trips only
Return_FirstVehicleObjective ==
    /\ pc = "after"
    /\ \E K \in 1 .. MaxVehicles, comp_time \in 0 .. MaxCompTime :
         LET vta == VehicleTripAssignments(K)
             out == OutputVehicleRoutes(vta)
             obj == Objective(VehicleTotal(out[1], 1), total_unload_time)
         IN  /\ V_count' = K
             /\ total_objective_value' = obj
             /\ vehicle_trip_assignments' = vta
             /\ output_vehicle_routes_for_1_to_5' = out
             /\ vehicle_total_times' =
                    [i \in 1 .. ReportedVehicles |-> VehicleTotal(out[i], 1)]
             /\ ret' = ReturnValue(obj, comp_time)
    /\ pc' = "returned"
    /\ UNCHANGED <<runnerVars, inputs, naiveVars, tripVars, globalVars>>

\* lines 149-302: objective, assignment, report and return.  V_count is read
\* here for the first time other than for printing; comp_time is wall clock.
ReturnWith(K, comp_time) ==
    /\ pc = "after"
    /\ LET vta == VehicleTripAssignments(K)
           out == OutputVehicleRoutes(vta)
           obj == Objective(total_travel_time, total_unload_time)
       IN  /\ V_count' = K
           /\ total_objective_value' = obj
           /\ vehicle_trip_assignments' = vta
           /\ output_vehicle_routes_for_1_to_5' = out
           /\ vehicle_total_times' =
                  [i \in 1 .. ReportedVehicles |-> VehicleTotal(out[i], 1)]
           /\ ret' = ReturnValue(obj, comp_time)
    /\ pc' = "returned"
    /\ UNCHANGED <<runnerVars, inputs, naiveVars, tripVars, globalVars>>

\* a call with any fleet size of 1 .. MaxVehicles
Return ==
    \E K \in 1 .. MaxVehicles, comp_time \in 0 .. MaxCompTime :
        ReturnWith(K, comp_time)

Next ==
    \/ StartTrip
    \/ SkipLoop
    \/ Visit
    \/ NoCandidate
    \/ CloseTrip
    \/ Return

Spec == Init /\ [][Next]_vars

\* The interpreter always takes the next step of the loop of lines 54-146.  The
\* speed and the unload rate only scale the accumulated times, so the runs
\* are drawn here with one value of each.
FairInit ==
    /\ Init
    /\ speed = 60
    /\ unload_t_per_unit = 1
LoopStep == StartTrip \/ SkipLoop \/ Visit \/ NoCandidate \/ CloseTrip
FairSpec == FairInit /\ [][Next]_vars /\ WF_vars(LoopStep)

\* Calls with an inconsistent demand map: some customer's demand is negative.
NegativeDemandDicts ==
    {d \in [S \ {0} -> -1 .. MaxDemand] : \E n \in S \ {0} : d[n] < 0}
NegativeDemandInit ==
    /\ unit \in Units
    /\ distance_matrix \in DistanceMatrices
    /\ demand_dict \in NegativeDemandDicts
    /\ capacity \in 0 .. MaxCap
    /\ speed = 60
    /\ unload_t_per_unit = 1
    /\ StartOfCall
NegativeDemandSpec == NegativeDemandInit /\ [][Next]_vars

\* Calls with a demand map that has an entry for the depot or lacks the entry
\* of a customer, on a complete distance map.
PartialDemandDicts ==
    {d \in UNION {[D -> 0 .. MaxDemand] : D \in SUBSET S} :
         0 \in DOMAIN d \/ \E n \in S \ {0} : n \notin DOMAIN d}
PartialDemandInit ==
    /\ unit \in Units
    /\ distance_matrix \in {LineDistances(c, {}) : c \in Coords}
    /\ demand_dict \in PartialDemandDicts
    /\ capacity \in 0 .. MaxCap
    /\ speed = 60
    /\ unload_t_per_unit = 1
    /\ StartOfCall
PartialDemandSpec == PartialDemandInit /\ [][Next]_vars

\* ------------------------------------------------------------ naive baseline
\* nearest_neighbor_heuristic is not called in this run
HeuristicNotCalled ==
    /\ pc = "idle"
    /\ unvisited_customers = {}
    /\ remaining_demand = <<>>
    /\ routes = <<>>
    /\ total_travel_time = 0
    /\ total_unload_time = 0
    /\ trips_made_count = 0
    /\ current_route = <<>>
    /\ current_load = 0
    /\ current_location = 0
    /\ route_travel_time = 0
    /\ route_unload_time = 0
    /\ deliveries = <<>>
    /\ V_count = 0
    /\ vehicle_trip_assignments = <<>>
    /\ output_vehicle_routes_for_1_to_5 = <<>>
    /\ vehicle_total_times = <<>>
    /\ total_objective_value = 0
    /\ ret = <<>>

\* lines 4-11: the baseline's state at the head of `for i in S`, the depot
\* skipped
NaiveStartOfCall ==
    /\ naive_pc = "for"
    /\ naive_i = 1
    /\ naive_rem = demand_dict
    /\ routes_by_vehicle = [v \in 0 .. V_size - 1 |-> <<>>]
    /\ vehicle_idx = 0
    /\ total_unload = 0
    /\ naive_ret = <<>>

\* A call of naive_single_delivery.  The capacities drawn are positive, the
\* quantities whole numbers; the baseline has no tolerance.
NaiveInit ==
    /\ unit = "whole"
    /\ distance_matrix \in DistanceMatrices
    /\ demand_dict \in DemandDicts
    /\ capacity \in 1 .. MaxCap
    /\ speed = 60
    /\ unload_t_per_unit = 1
    /\ V_size \in 1 .. MaxVehicles
    /\ NaiveStartOfCall
    /\ HeuristicNotCalled
    /\ RunnerNotCalled

\* lines 12-21: one pass of `while rem[i] > 0`
NaiveDeliver ==
    /\ naive_pc = "for"
    /\ naive_i \in S
    /\ naive_i \in DOMAIN naive_rem
    /\ naive_rem[naive_i] > 0
    /\ LET load == Min(naive_rem[naive_i], capacity)
           route == <<0, naive_i, 0>>
       IN  /\ naive_rem' = [naive_rem EXCEPT ![naive_i] = @ - load]
           /\ total_unload' = total_unload + load
           /\ routes_by_vehicle' =
                  [routes_by_vehicle EXCEPT ![vehicle_idx] = Append(@, route)]
           /\ vehicle_idx' = (vehicle_idx + 1) % V_size
    /\ demand_dict' = CallersDemand(demand_dict, naive_rem')
    /\ UNCHANGED <<runnerVars, unit, distance_matrix, capacity, speed, unload_t_per_unit,
                   pc, tripVars, globalVars, reportVars,
                   V_size, naive_pc, naive_i, naive_ret>>

\* line 12 false: the next i of line 9
NaiveNextCustomer ==
    /\ naive_pc = "for"
    /\ naive_i \in S
    /\ naive_i \in DOMAIN naive_rem
    /\ naive_rem[naive_i] <= 0
    /\ naive_i' = naive_i + 1
    /\ UNCHANGED <<runnerVars, inputs, pc, tripVars, globalVars, reportVars,
                   V_size, naive_pc, naive_rem, routes_by_vehicle, vehicle_idx,
                   total_unload, naive_ret>>

\* line 12: rem[i] for an i that has no entry raises KeyError
NaiveDemandKeyError ==
    /\ naive_pc = "for"
    /\ naive_i \in S
    /\ naive_i \notin DOMAIN naive_rem
    /\ naive_pc' = "raised"
    /\ UNCHANGED <<runnerVars, inputs, pc, tripVars, globalVars, reportVars,
                   V_size, naive_i, naive_rem, routes_by_vehicle, vehicle_idx,
                   total_unload, naive_ret>>

\* the legs line 24 looks up: every trip is [0, i, 0]
NaiveLegs ==
    UNION {UNION {{<<routes_by_vehicle[v][t][k], routes_by_vehicle[v][t][k + 1]>> :
                      k \in 1 .. Len(routes_by_vehicle[v][t]) - 1} :
                   t \in 1 .. Len(routes_by_vehicle[v])} :
           v \in DOMAIN routes_by_vehicle}

\* lines 24-27: the sum over all vehicles' trips of the legs' travel times
NaiveRouteDrive(route) ==
    SumSeq([k \in 1 .. Len(route) - 1 |->
              (distance_matrix[<<route[k], route[k + 1]>>] * 60) \div speed])
NaiveDrive ==
    SumSeq([v \in 1 .. V_size |->
              SumSeq([t \in 1 .. Len(routes_by_vehicle[v - 1]) |->
                        NaiveRouteDrive(routes_by_vehicle[v - 1][t])])])

\* lines 24-32 with every leg in the distance map
NaiveReturn ==
    /\ naive_pc = "for"
    /\ naive_i \notin S
    /\ NaiveLegs \subseteq DOMAIN distance_matrix
    /\ LET drive == NaiveDrive
           unload_time == total_unload * unload_t_per_unit
           obj == drive + unload_time
       IN  naive_ret' = <<obj, routes_by_vehicle>>
    /\ naive_pc' = "done"
    /\ UNCHANGED <<runnerVars, inputs, pc, tripVars, globalVars, reportVars,
                   V_size, naive_i, naive_rem, routes_by_vehicle, vehicle_idx,
                   total_unload>>

\* line 24: distance[(a, b)] for a pair that has no entry raises KeyError
NaiveDistanceKeyError ==
    /\ naive_pc = "for"
    /\ naive_i \notin S
    /\ ~(NaiveLegs \subseteq DOMAIN distance_matrix)
    /\ naive_pc' = "raised"
    /\ UNCHANGED <<runnerVars, inputs, pc, tripVars, globalVars, reportVars,
                   V_size, naive_i, naive_rem, routes_by_vehicle, vehicle_idx,
                   total_unload, naive_ret>>

NaiveNext ==
    \/ NaiveDeliver
    \/ NaiveNextCustomer
    \/ NaiveDemandKeyError
    \/ NaiveReturn
    \/ NaiveDistanceKeyError

\* A call of the baseline with every speed and unload rate.
NaiveWideInit ==
    /\ unit = "whole"
    /\ distance_matrix \in DistanceMatrices
    /\ demand_dict \in DemandDicts
    /\ capacity \in 1 .. MaxCap
    /\ speed \in Speeds
    /\ unload_t_per_unit \in 0 .. MaxRate
    /\ V_size \in 1 .. MaxVehicles
    /\ NaiveStartOfCall
    /\ HeuristicNotCalled
    /\ RunnerNotCalled
NaiveSpec == NaiveWideInit /\ [][NaiveNext]_vars

\* One call of either routine on the caller's maps.
CallInit == FairInit \/ NaiveInit
CallNext == Next \/ NaiveNext
CallSpec == CallInit /\ [][CallNext]_vars

\* ------------------------------------------------------------ larger fleets
\* Calls whose fleet can be larger than the number of vehicles the report
\* lists: whole quantities on a complete distance map.
MaxFleet == ReportedVehicles + 1
LargeFleetInit ==
    /\ unit = "whole"
    /\ distance_matrix \in {LineDistances(c, {}) : c \in Coords}
    /\ demand_dict \in [S \ {0} -> 0 .. MaxDemand]
    /\ capacity \in 0 .. MaxCap
    /\ speed = 60
    /\ unload_t_per_unit = 1
    /\ StartOfCall
LargeFleetReturn ==
    \E K \in 1 .. MaxFleet, comp_time \in 0 .. MaxCompTime :
        ReturnWith(K, comp_time)
LargeFleetNext ==
    \/ StartTrip
    \/ SkipLoop
    \/ Visit
    \/ NoCandidate
    \/ CloseTrip
    \/ LargeFleetReturn
LargeFleetSpec == LargeFleetInit /\ [][LargeFleetNext]_vars

\* ------------------------------------------------------------ both methods
\* A caller that scores one instance with the heuristic and then with the
\* baseline: finite distances, a non-negative demand for every customer,
\* capacity > 0.
CompareInit ==
    /\ unit \in Units
    /\ distance_matrix \in {LineDistances(c, {}) : c \in Coords}
    /\ demand_dict \in [S \ {0} -> 0 .. MaxDemand]
    /\ capacity \in 1 .. MaxCap
    /\ speed = 60
    /\ unload_t_per_unit \in 1 .. MaxRate
    /\ StartOfCall

\* naive_algorithm.py lines 3-11, called with the fleet the heuristic had
NaiveCall ==
    /\ pc = "returned"
    /\ naive_pc = "idle"
    /\ V_size' = V_count
    /\ naive_pc' = "for"
    /\ naive_i' = 1
    /\ naive_rem' = demand_dict
    /\ routes_by_vehicle' = [v \in 0 .. V_count - 1 |-> <<>>]
    /\ vehicle_idx' = 0
    /\ total_unload' = 0
    /\ naive_ret' = <<>>
    /\ UNCHANGED <<runnerVars, inputs, pc, tripVars, globalVars, reportVars>>

CompareNext ==
    \/ Next
    \/ NaiveCall
    \/ NaiveDeliver
    \/ NaiveNextCustomer
    \/ NaiveReturn
CompareSpec == CompareInit /\ [][CompareNext]_vars

\* ------------------------------------------------------------ run_experiments
\* The instance files of a folder: whole quantities, a complete distance map
\* or one without the pair between the two customers, every customer with a
\* demand, the two largest capacities.
RunnerInstances ==
    [distance : {LineDistances(c, m) : c \in Coords, m \in {{}, {<<1, 2>>}}},
     demand : [S \ {0} -> 0 .. MaxDemand],
     capacity : {MaxCap - 1, MaxCap} \ {0},
     V_size : {MaxVehicles}]

\* opitmal_algorithm_speed_up.py lines 6-121: the function ends after
\* printing the routes, without a return statement, so a call gives None
solve_routing == <<>>

\* `a, b = value` and `a, b, _ = value`: the number of values must be the
\* number of targets; None cannot be unpacked at all
Unpacks(value, targets) == Len(value) = targets

\* lines 30-67 for the first file, at line 70
RunnerInit ==
    /\ unit = "whole"
    /\ \E inst \in RunnerInstances :
           /\ distance_matrix = inst.distance
           /\ demand_dict = inst.demand
           /\ capacity = inst.capacity
           /\ V_size = inst.V_size
    /\ speed = 60
    /\ unload_t_per_unit = 1
    /\ HeuristicNotCalled
    /\ naive_pc = "idle"
    /\ naive_i = 0
    /\ naive_rem = <<>>
    /\ routes_by_vehicle = <<>>
    /\ vehicle_idx = 0
    /\ total_unload = 0
    /\ naive_ret = <<>>
    /\ runner_pc = "heuristic"
    /\ include_heuristic \in BOOLEAN
    /\ include_naive_heuristic \in BOOLEAN
    /\ include_optimal \in BOOLEAN
    /\ n_files \in 1 .. MaxFiles
    /\ row = EmptyRow
    /\ results = <<>>

\* lines 70-72: the call of the heuristic, up to its first loop test
RunnerCallHeuristic ==
    /\ runner_pc = "heuristic"
    /\ include_heuristic
    /\ unvisited_customers' = Customers(demand_dict)
    /\ remaining_demand' = demand_dict
    /\ pc' = "while"
    /\ runner_pc' = "in_heuristic"
    /\ UNCHANGED <<inputs, tripVars, routes, total_travel_time,
                   total_unload_time, trips_made_count, deliveries, reportVars,
                   naiveVars, include_heuristic, include_naive_heuristic,
                   include_optimal, n_files, row, results>>

\* line 70 false
RunnerSkipHeuristic ==
    /\ runner_pc = "heuristic"
    /\ ~include_heuristic
    /\ runner_pc' = "naive"
    /\ UNCHANGED <<inputs, pc, tripVars, globalVars, reportVars, naiveVars,
                   include_heuristic, include_naive_heuristic, include_optimal,
                   n_files, row, results>>

\* the heuristic's return in the call of line 72, whose fleet size is V_size
RunnerHeuristicReturn ==
    /\ runner_pc = "in_heuristic"
    /\ \E comp_time \in 0 .. MaxCompTime : ReturnWith(V_size, comp_time)

\* line 72: three targets for the value the heuristic returned; lines 73-74
RunnerUnpackHeuristic ==
    /\ runner_pc = "in_heuristic"
    /\ pc = "returned"
    /\ IF Unpacks(ret, 3)
       THEN /\ row' = [row EXCEPT !.obj_heuristic = <<ret[1]>>,
                                  !.time_heuristic = <<ret[2]>>]
            /\ runner_pc' = "naive"
       ELSE /\ runner_pc' = "raised"
            /\ UNCHANGED row
    /\ UNCHANGED <<inputs, pc, tripVars, globalVars, reportVars, naiveVars,
                   include_heuristic, include_naive_heuristic, include_optimal,
                   n_files, results>>

\* lines 77-78: the call of the baseline, up to the head of its loop
RunnerCallNaive ==
    /\ runner_pc = "naive"
    /\ include_naive_heuristic
    /\ naive_pc' = "for"
    /\ naive_i' = 1
    /\ naive_rem' = demand_dict
    /\ routes_by_vehicle' = [v \in 0 .. V_size - 1 |-> <<>>]
    /\ vehicle_idx' = 0
    /\ total_unload' = 0
    /\ naive_ret' = <<>>
    /\ runner_pc' = "in_naive"
    /\ UNCHANGED <<inputs, pc, tripVars, globalVars, reportVars, V_size,
                   include_heuristic, include_naive_heuristic, include_optimal,
                   n_files, row, results>>

\* line 77 false
RunnerSkipNaive ==
    /\ runner_pc = "naive"
    /\ ~include_naive_heuristic
    /\ runner_pc' = "optimal"
    /\ UNCHANGED <<inputs, pc, tripVars, globalVars, reportVars, naiveVars,
                   include_heuristic, include_naive_heuristic, include_optimal,
                   n_files, row, results>>

\* line 78: two targets for the value the baseline returned, or its KeyError
\* passed on
RunnerUnpackNaive ==
    /\ runner_pc = "in_naive"
    /\ naive_pc \in {"done", "raised"}
    /\ IF naive_pc = "done" /\ Unpacks(naive_ret, 2)
       THEN /\ row' = [row EXCEPT !.obj_naive = <<naive_ret[1]>>]
            /\ runner_pc' = "optimal"
       ELSE /\ runner_pc' = "raised"
            /\ UNCHANGED row
    /\ UNCHANGED <<inputs, pc, tripVars, globalVars, reportVars, naiveVars,
                   include_heuristic, include_naive_heuristic, include_optimal,
                   n_files, results>>

\* lines 83-84: two targets for the value solve_routing returned
RunnerCallOptimal ==
    /\ runner_pc = "optimal"
    /\ include_optimal
    /\ LET value == solve_routing
       IN  IF Unpacks(value, 2)
           THEN /\ row' = [row EXCEPT !.obj_optimal = <<value[1]>>]
                /\ runner_pc' = "store"
           ELSE /\ runner_pc' = "raised"
                /\ UNCHANGED row
    /\ UNCHANGED <<inputs, pc, tripVars, globalVars, reportVars, naiveVars,
                   include_heuristic, include_naive_heuristic, include_optimal,
                   n_files, results>>

\* line 83 false
RunnerSkipOptimal ==
    /\ runner_pc = "optimal"
    /\ ~include_optimal
    /\ runner_pc' = "store"
    /\ UNCHANGED <<inputs, pc, tripVars, globalVars, reportVars, naiveVars,
                   include_heuristic, include_naive_heuristic, include_optimal,
                   n_files, row, results>>

\* lines 88-98, then lines 30-67 for the next file
RunnerStore ==
    /\ runner_pc = "store"
    /\ Len(results) + 1 < n_files
    /\ results' = Append(results, row)
    /\ row' = EmptyRow
    /\ \E inst \in RunnerInstances :
           /\ distance_matrix' = inst.distance
           /\ demand_dict' = inst.demand
           /\ capacity' = inst.capacity
           /\ V_size' = inst.V_size
    /\ pc' = "idle"
    /\ unvisited_customers' = {}
    /\ remaining_demand' = <<>>
    /\ routes' = <<>>
    /\ total_travel_time' = 0
    /\ total_unload_time' = 0
    /\ trips_made_count' = 0
    /\ current_route' = <<>>
    /\ current_load' = 0
    /\ current_location' = 0
    /\ route_travel_time' = 0
    /\ route_unload_time' = 0
    /\ deliveries' = <<>>
    /\ V_count' = 0
    /\ vehicle_trip_assignments' = <<>>
    /\ output_vehicle_routes_for_1_to_5' = <<>>
    /\ vehicle_total_times' = <<>>
    /\ total_objective_value' = 0
    /\ ret' = <<>>
    /\ naive_pc' = "idle"
    /\ naive_i' = 0
    /\ naive_rem' = <<>>
    /\ routes_by_vehicle' = <<>>
    /\ vehicle_idx' = 0
    /\ total_unload' = 0
    /\ naive_ret' = <<>>
    /\ runner_pc' = "heuristic"
    /\ UNCHANGED <<unit, speed, unload_t_per_unit, include_heuristic,
                   include_naive_heuristic, include_optimal, n_files>>

\* lines 88-98 for the last file, then lines 100-104
RunnerStoreLast ==
    /\ runner_pc = "store"
    /\ Len(results) + 1 = n_files
    /\ results' = Append(results, row)
    /\ runner_pc' = "end"
    /\ UNCHANGED <<inputs, pc, tripVars, globalVars, reportVars, naiveVars,
                   include_heuristic, include_naive_heuristic, include_optimal,
                   n_files, row>>

RunnerNext ==
    \/ RunnerCallHeuristic
    \/ RunnerSkipHeuristic
    \/ StartTrip
    \/ SkipLoop
    \/ Visit
    \/ NoCandidate
    \/ CloseTrip
    \/ RunnerHeuristicReturn
    \/ RunnerUnpackHeuristic
    \/ RunnerCallNaive
    \/ RunnerSkipNaive
    \/ NaiveDeliver
    \/ NaiveNextCustomer
    \/ NaiveReturn
    \/ RunnerUnpackNaive
    \/ RunnerCallOptimal
    \/ RunnerSkipOptimal
    \/ RunnerStore
    \/ RunnerStoreLast

RunnerSpec == RunnerInit /\ [][RunnerNext]_vars

\* ------------------------------------------------------------ properties
\* the quantity delivered in one trip, from its "Delivered" lines
TripDelivered(trip) == SumSeq([k \in 1 .. Len(trip) |-> trip[k][2]])
TotalDelivered == SumSeq([t \in 1 .. Len(deliveries) |-> TripDelivered(deliveries[t])])
DeliveredTo(c) ==
    SumSeq([t \in 1 .. Len(deliveries) |->
              SumSeq([k \in 1 .. Len(deliveries[t]) |->
                        IF deliveries[t][k][1] = c THEN deliveries[t][k][2] ELSE 0])])
InitialCustomers == Customers(demand_dict)
RECURSIVE SumDemand(_)
SumDemand(T) ==
    IF T = {} THEN 0
    ELSE LET n == CHOOSE m \in T : TRUE
         IN  demand_dict[n] + SumDemand(T \ {n})
TotalDemand == SumDemand(InitialCustomers)
Terminated == pc \in {"after", "returned"}

\* C1 (as stated): when the routine has terminated, the total quantity
\* delivered equals the total initial demand of the customers with demand
\* above the tolerance, within one tolerance.
C1_ConservationWithinEps ==
    Terminated => Abs(TotalDemand - TotalDelivered) <= Eps

\* C1 (amended): when the routine has terminated, every customer that had
\* demand above the tolerance has received its demand less a residue between
\* 0 and the tolerance, so the total delivered is at most the total demand
\* and short of it by at most one tolerance per such customer.
C1_ConservationPerCustomer ==
    Terminated =>
        /\ \A c \in InitialCustomers :
               /\ DeliveredTo(c) <= demand_dict[c]
               /\ demand_dict[c] - DeliveredTo(c) <= Eps
        /\ TotalDelivered <= TotalDemand
        /\ TotalDemand - TotalDelivered <= Eps * Cardinality(InitialCustomers)

\* a run that ended after several trips, one customer left with a residue
C1_Witness ==
    /\ pc = "returned"
    /\ Len(routes) >= 2
    /\ \E c \in InitialCustomers : DeliveredTo(c) < demand_dict[c]
    /\ \E c \in InitialCustomers : DeliveredTo(c) = demand_dict[c]

\* C2: the load of the trip under construction is between 0 and the
\* capacity in every state, and no trip delivers more than the capacity
\* plus the tolerance.
C2_CapacityInvariant ==
    /\ 0 <= current_load
    /\ current_load <= capacity
    /\ \A t \in 1 .. Len(deliveries) : TripDelivered(deliveries[t]) <= capacity + Eps
    /\ pc \in {"select", "close"} /\ Len(current_route) > 1
           => current_load = TripDelivered(deliveries[Len(deliveries)])

\* a trip filled to capacity by a second, partial delivery
C2_Witness ==
    /\ pc = "close"
    /\ current_load = capacity
    /\ Len(current_route) = 3
    /\ remaining_demand[current_location] > Eps

\* C3: every trip of the route set starts at node 0 and ends at node 0.
C3_DepotBoundary ==
    \A t \in 1 .. Len(routes) :
        /\ Len(routes[t]) >= 3
        /\ routes[t][1] = 0
        /\ routes[t][Len(routes[t])] = 0

\* two trips in the route set, one of them with two customers
C3_Witness ==
    /\ Len(routes) >= 2
    /\ \E t \in 1 .. Len(routes) : Len(routes[t]) = 4

\* C4: on valid input (every pair of nodes has a distance, the capacity is
\* above the tolerance, the speed is positive, no demand is negative) the
\* construction loop eventually ends, with the unvisited set empty and every
\* remaining demand within the tolerance.
ValidInput ==
    /\ DOMAIN distance_matrix = S \X S
    /\ \A p \in S \X S : distance_matrix[p] >= 0
    /\ capacity > Eps
    /\ speed > 0
    /\ \A n \in DOMAIN demand_dict : demand_dict[n] >= 0
AllServed ==
    /\ unvisited_customers = {}
    /\ \A n \in DOMAIN remaining_demand : n # 0 => remaining_demand[n] <= Eps
C4_Termination == ValidInput ~> (Terminated /\ AllServed)

\* a valid input that took three trips, now returned
C4_Witness ==
    /\ ValidInput
    /\ pc = "returned"
    /\ Len(routes) >= 3
    /\ AllServed

\* C5: with a capacity above the tolerance and a customer of demand above
\* the tolerance that has no distance to or from any other node, that
\* customer is in no trip and receives nothing, and the routine ends after
\* a bounded number of trips: as a trip that serves nobody changes nothing,
\* that is at most one such trip beside the trips of the route set.
Isolated(n) ==
    \A m \in S \ {n} :
        <<n, m>> \notin DOMAIN distance_matrix /\ <<m, n>> \notin DOMAIN distance_matrix
C5_UnreachableCustomer ==
    \A n \in InitialCustomers :
        Isolated(n) /\ capacity > Eps =>
            /\ \A t \in 1 .. Len(routes) : \A k \in 1 .. Len(routes[t]) : routes[t][k] # n
            /\ DeliveredTo(n) = 0
            /\ trips_made_count <= Len(routes) + 1

NoDemandAboveEps ==
    \A n \in DOMAIN demand_dict : n \in S /\ n # 0 => demand_dict[n] <= Eps
C7_Degenerate ==
    NoDemandAboveEps =>
        /\ pc \in {"while", "after", "returned"}
        /\ pc # "returned" => ENABLED Next
        /\ trips_made_count = 0
        /\ routes = <<>>
        /\ deliveries = <<>>
        /\ total_travel_time = 0
        /\ total_unload_time = 0
        /\ pc = "returned" => total_objective_value = 0 /\ ret[1] = 0

\* returned with a demand map whose only demand is within the tolerance
C7_Witness ==
    /\ pc = "returned"
    /\ NoDemandAboveEps
    /\ demand_dict # <<>>
    /\ \E n \in DOMAIN demand_dict : demand_dict[n] > 0

\* C8: the travel and unload times, of the trip and in total, are never
\* negative, and at return the objective is the total travel time plus the
\* total unload time.
GeqZero(x) == IsInf(x) \/ x >= 0
C8_ObjectiveAccounting ==
    /\ GeqZero(total_travel_time)
    /\ GeqZero(route_travel_time)
    /\ total_unload_time >= 0
    /\ route_unload_time >= 0
    /\ pc = "returned" =>
           /\ total_objective_value = Plus(total_travel_time, total_unload_time)
           /\ GeqZero(total_objective_value)

\* returned with an objective made of both travel and unload time
C8_Witness ==
    /\ pc = "returned"
    /\ total_travel_time > 0
    /\ total_unload_time > 0
    /\ total_objective_value > total_travel_time

\* C9: scoring the finished route set again, leg by leg and delivery by
\* delivery, gives the totals accumulated during construction.
RECURSIVE PlusSeq(_)
PlusSeq(q) == IF q = <<>> THEN 0 ELSE Plus(Head(q), PlusSeq(Tail(q)))
RescoredTravel == PlusSeq([t \in 1 .. Len(routes) |-> TripTravelTime(routes[t], 1)])
RescoredUnload == unload_t_per_unit * TotalDelivered
C9_IdempotentEvaluation ==
    Terminated =>
        /\ total_travel_time = RescoredTravel
        /\ total_unload_time = RescoredUnload
        /\ pc = "returned" =>
               total_objective_value = Plus(RescoredTravel, RescoredUnload)

\* returned after two trips, one with two customers, all times finite
C9_Witness ==
    /\ pc = "returned"
    /\ Len(routes) >= 2
    /\ \E t \in 1 .. Len(routes) : Len(routes[t]) = 4
    /\ total_travel_time > 0
    /\ total_unload_time > 0

\* C10: the step that assigns the trips leaves the route set as it is and
\* puts the trip at 0-based index i at place i div K of vehicle (i mod K) + 1,
\* unaltered, with nothing else in any vehicle's list.
RoundRobin ==
    /\ DOMAIN vehicle_trip_assignments = 1 .. V_count
    /\ \A i \in 0 .. Len(routes) - 1 :
           LET v == (i % V_count) + 1
               j == (i \div V_count) + 1
           IN  /\ j <= Len(vehicle_trip_assignments[v])
               /\ vehicle_trip_assignments[v][j] = routes[i + 1]
    /\ \A v \in 1 .. V_count :
           \A j \in 1 .. Len(vehicle_trip_assignments[v]) :
               (j - 1) * V_count + v <= Len(routes)
C10_FleetAssignment ==
    [][pc = "after" => routes' = routes /\ V_count' >= 1 /\ RoundRobin']_vars

\* three trips assigned to two vehicles
C10_Witness ==
    /\ pc = "returned"
    /\ V_count = 2
    /\ Len(routes) = 3
    /\ Len(vehicle_trip_assignments[1]) = 2

\* C11: the construction loop runs without the vehicle count, and the step
\* that reads it leaves the route set and the two totals as the loop built
\* them and sets the objective to their sum, whatever the count: two runs
\* that differ only in V_count agree on all four.
C11_VehicleCountIndependence ==
    [][/\ pc # "after" => V_count' = V_count
       /\ pc = "after" =>
              /\ routes' = routes
              /\ total_travel_time' = total_travel_time
              /\ total_unload_time' = total_unload_time
              /\ total_objective_value' =
                     Plus(total_travel_time, total_unload_time)
              /\ ret'[1] = total_objective_value']_vars

\* returned with three vehicles for two trips, the second vehicle's trip
\* taking part of the travel time
C11_Witness ==
    /\ pc = "returned"
    /\ V_count = 3
    /\ Len(routes) = 2
    /\ ~IsInf(total_travel_time)
    /\ vehicle_total_times[2] > 0
    /\ total_objective_value = total_travel_time + total_unload_time

\* C12: no step of either routine changes the caller's demand map or
\* distance map; the decrements go to the routine's own copy
\* (remaining_demand, rem), which starts equal to the caller's map.
C12_Purity ==
    /\ [][demand_dict' = demand_dict /\ distance_matrix' = distance_matrix]_vars
    /\ [](pc = "while" /\ trips_made_count = 0 => remaining_demand = demand_dict)
    /\ [](naive_pc = "for" /\ naive_i = 1 /\ total_unload = 0
              => naive_rem = demand_dict)

\* the heuristic has returned with its copy decremented
C12_Witness ==
    /\ pc = "returned"
    /\ \E c \in InitialCustomers : remaining_demand[c] < demand_dict[c]
    /\ Len(routes) >= 2

\* C13: no trip of the route set has a leg over a pair of nodes that is
\* absent from the distance map, neither a leg to a customer nor the return
\* leg to the depot, and the accumulated travel times stay finite.
C13_MissingPairNotTraversed ==
    /\ \A t \in 1 .. Len(routes) :
           \A k \in 1 .. Len(routes[t]) - 1 :
               <<routes[t][k], routes[t][k + 1]>> \in DOMAIN distance_matrix
    /\ ~IsInf(route_travel_time)
    /\ ~IsInf(total_travel_time)
    /\ pc = "returned" => ~IsInf(total_objective_value)

\* C14: when the demand map holds a negative demand, the routine stops at
\* its validation: no trip is ever started, no route is built, no total is
\* accumulated, and the routine does not go on to its results.  Stated for
\* the calls that have work to do beside the negative entry: a customer with
\* demand above the tolerance and a capacity above the tolerance.
HasNegativeDemand == \E n \in DOMAIN demand_dict : demand_dict[n] < 0
C14_NegativeDemandRejected ==
    HasNegativeDemand /\ InitialCustomers # {} /\ capacity > Eps =>
        /\ pc = "while"
        /\ trips_made_count = 0
        /\ routes = <<>>
        /\ total_travel_time = 0
        /\ total_unload_time = 0

\* C15: when customers with demand above the tolerance exist and nothing
\* can be delivered (the capacity is within the tolerance of zero), the
\* construction eventually stops instead of starting empty trips for ever.
NoProgressPossible == InitialCustomers # {} /\ capacity <= Eps
C15_NoProgressDetected == NoProgressPossible ~> pc \notin {"while", "select", "close"}

\* lines 149-154: the customers listed under "Unvisited customers with
\* remaining demand" when the loop is left
UnderServedDiagnostic ==
    IF unvisited_customers # {}
    THEN {c \in unvisited_customers :
              c \in DOMAIN remaining_demand /\ remaining_demand[c] > Eps}
    ELSE {}
ServedOrFlagged ==
    \A c \in InitialCustomers :
        remaining_demand[c] <= Eps \/ c \in UnderServedDiagnostic

DemandOfMap == SumDemand(DOMAIN demand_dict \cap (S \ {0}))
FullyPopulated ==
    /\ DOMAIN distance_matrix = S \X S
    /\ \A p \in S \X S : ~IsInf(distance_matrix[p]) /\ distance_matrix[p] >= 0
SingleTripScenario == capacity >= DemandOfMap /\ FullyPopulated

\* the one trip visits every customer once, each time a nearest one of those
\* not yet served
OneTripNearestFirst ==
    /\ Len(routes) = 1
    /\ Len(routes[1]) = Cardinality(InitialCustomers) + 2
    /\ {routes[1][k] : k \in 2 .. Len(routes[1]) - 1} = InitialCustomers
    /\ \A k \in 2 .. Len(routes[1]) - 1 :
           \A other \in InitialCustomers \ {routes[1][j] : j \in 2 .. k - 1} :
               distance_matrix[<<routes[1][k - 1], routes[1][k]>>]
                   <= distance_matrix[<<routes[1][k - 1], other>>]

\* C17 (as stated): when the capacity is at least the total demand and every
\* pair of nodes has a finite distance, the finished route set is exactly
\* one trip that visits every customer with demand above the tolerance once,
\* in nearest-first order from the depot.
C17_SingleTrip ==
    Terminated /\ SingleTripScenario => OneTripNearestFirst

\* C17 (amended): the same, when at least one customer has demand above the
\* tolerance; with no such customer the route set is empty.
C17_SingleTripWithCustomers ==
    Terminated /\ SingleTripScenario =>
        IF InitialCustomers # {} THEN OneTripNearestFirst ELSE routes = <<>>

\* one trip over both customers, the customer with the higher number first
\* because it is the nearer one
C17_Witness ==
    /\ pc = "returned"
    /\ SingleTripScenario
    /\ routes = <<(<<0, 2, 1, 0>>)>>
    /\ capacity = DemandOfMap

\* C18 (as stated): when the total demand exceeds the capacity and every
\* pair of nodes has a finite distance, the finished route set has at least
\* two trips and the total delivered equals the total demand.
C18_Split ==
    Terminated /\ FullyPopulated /\ TotalDemand > capacity =>
        /\ Len(routes) >= 2
        /\ TotalDelivered = TotalDemand

\* C18 (amended): when the total demand exceeds the capacity by more than
\* one tolerance per customer, the finished route set has at least two
\* trips; every customer has received its demand less a residue between 0
\* and the tolerance, and exactly its demand when the quantities are whole
\* numbers.
C18_SplitBeyondTolerance ==
    Terminated /\ FullyPopulated
        /\ TotalDemand > capacity + Eps * Cardinality(InitialCustomers) =>
        /\ Len(routes) >= 2
        /\ \A c \in InitialCustomers :
               /\ DeliveredTo(c) <= demand_dict[c]
               /\ DeliveredTo(c) >= demand_dict[c] - Eps
        /\ unit = "whole" => TotalDelivered = TotalDemand

\* whole quantities split over three trips, one of them with two customers
C18_Witness ==
    /\ pc = "returned"
    /\ unit = "whole"
    /\ FullyPopulated
    /\ TotalDemand > capacity
    /\ Len(routes) = 3
    /\ \E t \in 1 .. Len(routes) : Len(routes[t]) = 4
    /\ TotalDelivered = TotalDemand

\* C19: every step that appends a customer to the trip appends an unvisited
\* customer with remaining demand above the tolerance whose distance from
\* the current location is in the map and is the least among all such
\* customers, and is taken only with the load below the capacity by more
\* than the tolerance.
C19_NearestNeighbour ==
    [][pc = "select" /\ current_route' # current_route =>
           LET c == current_location'
           IN  /\ current_route' = Append(current_route, c)
               /\ c \in unvisited_customers
               /\ remaining_demand[c] > Eps
               /\ <<current_location, c>> \in DOMAIN distance_matrix
               /\ \A o \in unvisited_customers :
                      remaining_demand[o] > Eps
                          /\ <<current_location, o>> \in DOMAIN distance_matrix
                      => distance_matrix[<<current_location, c>>]
                             <= distance_matrix[<<current_location, o>>]
               /\ current_load < capacity - Eps]_vars

\* customer 2 was taken first from the depot, being nearer than customer 1,
\* which is still to be served
C19_Witness ==
    /\ pc = "select"
    /\ current_route = <<0, 2>>
    /\ 1 \in unvisited_customers
    /\ remaining_demand[1] > Eps
    /\ FullyPopulated
    /\ distance_matrix[<<0, 2>>] < distance_matrix[<<0, 1>>]

\* the trips in which customer c received a delivery
TripsVisiting(c) ==
    {t \in 1 .. Len(deliveries) :
         \E k \in 1 .. Len(deliveries[t]) : deliveries[t][k][1] = c}
PartlyServed(c) ==
    /\ c \in unvisited_customers
    /\ remaining_demand[c] > Eps
    /\ remaining_demand[c] < demand_dict[c]

CandidateExists ==
    /\ current_load < capacity - Eps
    /\ \E c \in unvisited_customers :
           /\ remaining_demand[c] > Eps
           /\ <<current_location, c>> \in DOMAIN distance_matrix
           /\ ~IsInf(distance_matrix[<<current_location, c>>])

\* C21: a trip under construction ends exactly when no candidate exists or,
\* after a visit, the load is within the tolerance of the capacity or no
\* customer is left unvisited.  When it is closed, a trip that visited
\* nobody leaves the route set and the totals as they are; a trip that
\* visited somebody is appended to the route set with the depot at its end,
\* and its travel time with the return leg and its unload time are added to
\* the totals.  No other step changes the route set or the totals.
C21_TripClosing ==
    [][/\ pc = "select" =>
              (pc' = "close" <=>
                   \/ ~CandidateExists
                   \/ current_load' >= capacity - Eps
                   \/ unvisited_customers' = {})
       /\ pc = "close" /\ Len(current_route) = 1 =>
              /\ routes' = routes
              /\ total_travel_time' = total_travel_time
              /\ total_unload_time' = total_unload_time
       /\ pc = "close" /\ Len(current_route) > 1 =>
              /\ routes' = Append(routes, Append(current_route, 0))
              /\ total_travel_time' =
                     Plus(total_travel_time,
                          Plus(route_travel_time,
                               get_travel_time(current_location, 0)))
              /\ total_unload_time' = total_unload_time + route_unload_time
       /\ pc # "close" =>
              /\ routes' = routes
              /\ total_travel_time' = total_travel_time
              /\ total_unload_time' = total_unload_time]_vars

\* one trip was kept and the next one, which visited nobody, was dropped
C21_Witness ==
    /\ pc = "while"
    /\ Len(routes) = 1
    /\ trips_made_count = 2
    /\ total_travel_time > 0
    /\ total_unload_time > 0

\* a node that may be visited: a node of S other than the depot whose entry
\* in the caller's demand map is above the tolerance
Eligible(n) ==
    n \in S \ {0} /\ n \in DOMAIN demand_dict /\ demand_dict[n] > Eps

\* C22: every interior node of every trip, finished or under construction,
\* and every node that received a delivery is eligible; the unvisited set
\* holds eligible nodes only; the depot and every other node that is not
\* eligible keep the demand entry they had, whatever it is.
C22_Eligibility ==
    /\ \A t \in 1 .. Len(routes) :
           \A k \in 2 .. Len(routes[t]) - 1 : Eligible(routes[t][k])
    /\ \A k \in 2 .. Len(current_route) :
           \/ Eligible(current_route[k])
           \/ k = Len(current_route) /\ current_route[k] = 0
                  /\ pc \notin {"select", "close"}
    /\ \A t \in 1 .. Len(deliveries) :
           \A k \in 1 .. Len(deliveries[t]) : Eligible(deliveries[t][k][1])
    /\ \A n \in unvisited_customers : Eligible(n)
    /\ \A n \in DOMAIN demand_dict :
           ~Eligible(n) => remaining_demand[n] = demand_dict[n]

\* returned after two trips to customer 2, with a positive entry for the
\* depot and no entry for customer 1
C22_Witness ==
    /\ pc = "returned"
    /\ 0 \in DOMAIN demand_dict
    /\ demand_dict[0] > Eps
    /\ 1 \notin DOMAIN demand_dict
    /\ Len(routes) = 2

\* the baseline's trips, vehicle by vehicle, and the number of them to node i
NaiveTrips ==
    {<<v, t>> \in (DOMAIN routes_by_vehicle) \X (1 .. 2 * MaxDemand) :
         t <= Len(routes_by_vehicle[v])}
NaiveTripsTo(i) ==
    Cardinality({p \in NaiveTrips : routes_by_vehicle[p[1]][p[2]][2] = i})
CeilDiv(a, b) == (a + b - 1) \div b

\* C23: every trip of the baseline is [0, i, 0] for a customer i and carries
\* the lesser of the customer's remaining demand and the capacity; when the
\* baseline has returned, customer i has ceil(demand_i / capacity) trips, the
\* quantity delivered is the total demand, and the objective is the travel
\* time of all the trips' legs, distance / speed * 60 each, plus the unload
\* rate times the quantity delivered.
C23_NaiveBaseline ==
    /\ [](\A p \in NaiveTrips :
              /\ Len(routes_by_vehicle[p[1]][p[2]]) = 3
              /\ routes_by_vehicle[p[1]][p[2]][1] = 0
              /\ routes_by_vehicle[p[1]][p[2]][2] \in S \ {0}
              /\ routes_by_vehicle[p[1]][p[2]][3] = 0)
    /\ [][naive_pc = "for" /\ routes_by_vehicle' # routes_by_vehicle =>
              LET carried == IF naive_rem[naive_i] <= capacity
                             THEN naive_rem[naive_i] ELSE capacity
              IN  /\ naive_rem'[naive_i] = naive_rem[naive_i] - carried
                  /\ total_unload' = total_unload + carried
                  /\ NaiveTripsTo(naive_i)' = NaiveTripsTo(naive_i) + 1]_vars
    /\ [](naive_pc = "done" =>
              /\ \A i \in S \ {0} :
                     /\ NaiveTripsTo(i) = CeilDiv(demand_dict[i], capacity)
                     /\ naive_rem[i] = 0
              /\ total_unload = DemandOfMap
              /\ naive_ret[1] =
                     SumSeq([i \in 1 .. Cardinality(S \ {0}) |->
                               IF NaiveTripsTo(i) = 0 THEN 0
                               ELSE NaiveTripsTo(i)
                                   * ((distance_matrix[<<0, i>>] * 60) \div speed
                                      + (distance_matrix[<<i, 0>>] * 60) \div speed)])
                     + unload_t_per_unit * DemandOfMap)

\* the baseline has returned after two trips to one customer, the second
\* with less than the capacity, and one trip to the other
C23_Witness ==
    /\ naive_pc = "done"
    /\ V_size = 2
    /\ speed = 30
    /\ unload_t_per_unit = 1
    /\ capacity = 2
    /\ demand_dict = <<3, 1>>
    /\ NaiveTripsTo(1) = 2
    /\ naive_ret[1] > 0

\* the customers the scan of lines 82-89 can take, and the nearest of them
Candidates ==
    {c \in unvisited_customers :
         /\ current_load < capacity - Eps
         /\ remaining_demand[c] > Eps
         /\ <<current_location, c>> \in DOMAIN distance_matrix
         /\ ~IsInf(distance_matrix[<<current_location, c>>])}
NearestCandidates ==
    {c \in Candidates :
         \A e \in Candidates :
             distance_matrix[<<current_location, c>>]
                 <= distance_matrix[<<current_location, e>>]}
EnabledLoopSteps ==
    {a \in {"StartTrip", "SkipLoop", "Visit", "NoCandidate", "CloseTrip"} :
         \/ a = "StartTrip" /\ ENABLED StartTrip
         \/ a = "SkipLoop" /\ ENABLED SkipLoop
         \/ a = "Visit" /\ ENABLED Visit
         \/ a = "NoCandidate" /\ ENABLED NoCandidate
         \/ a = "CloseTrip" /\ ENABLED CloseTrip}

\* C24: the routine is deterministic: in every state before the return at
\* most one step of the loop can be taken; the customer a visit goes to is
\* fixed by the state, also on a tie, where it is the first in iteration order
\* of the customers at the minimum distance; and the return leaves the routes
\* and the totals as built and gives their sum as the objective, whatever the
\* fleet size and the computation time.
C24_Determinism ==
    /\ [](Cardinality(EnabledLoopSteps) <= 1)
    /\ [][pc = "select" /\ current_location' # current_location =>
              /\ NearestCandidates # {}
              /\ current_location' \in NearestCandidates
              /\ \A c \in NearestCandidates : current_location' <= c]_vars
    /\ [][pc = "after" /\ pc' = "returned" =>
              /\ UNCHANGED <<routes, total_travel_time, total_unload_time>>
              /\ total_objective_value' = Plus(total_travel_time, total_unload_time)
              /\ ret'[1] = total_objective_value']_vars

\* the first visit of a trip was to customer 1 while customer 2, as far from
\* the depot, could have been taken
C24_Witness ==
    /\ pc \in {"select", "close"}
    /\ current_route = <<0, 1>>
    /\ <<0, 1>> \in DOMAIN distance_matrix
    /\ <<0, 2>> \in DOMAIN distance_matrix
    /\ distance_matrix[<<0, 1>>] = distance_matrix[<<0, 2>>]
    /\ distance_matrix[<<0, 1>>] > 0
    /\ 2 \in unvisited_customers
    /\ remaining_demand[2] > Eps

\* C25: with the three methods enabled, run_experiments takes each method's
\* objective value from the value the method returns and stores it in the
\* instance's row: no call ends the run with an exception, and every stored
\* row has the three objectives and the heuristic's computation time.
C25_EveryMethodStored ==
    include_heuristic /\ include_naive_heuristic /\ include_optimal =>
        /\ runner_pc # "raised"
        /\ \A k \in 1 .. Len(results) :
               /\ results[k].obj_heuristic # <<>>
               /\ results[k].time_heuristic # <<>>
               /\ results[k].obj_naive # <<>>
               /\ results[k].obj_optimal # <<>>

\* C26: for every customer whose demand exceeded the tolerance at the call,
\* the remaining demand stays between 0 and the initial demand, and the
\* customer is in the unvisited set exactly when its remaining demand exceeds
\* the tolerance.
C26_UnvisitedInvariant ==
    [](pc # "idle" =>
           \A c \in InitialCustomers :
               /\ 0 <= remaining_demand[c]
               /\ remaining_demand[c] <= demand_dict[c]
               /\ c \in unvisited_customers <=> remaining_demand[c] > Eps)

\* after a trip, one customer has left the set with a remainder within the
\* tolerance while another is still in it
C26_Witness ==
    /\ pc = "while"
    /\ Len(routes) >= 1
    /\ \E c, e \in InitialCustomers :
           /\ c \notin unvisited_customers
           /\ remaining_demand[c] > 0
           /\ remaining_demand[c] < demand_dict[c]
           /\ e \in unvisited_customers

\* no customer occurs twice in a node sequence
NoRepeatedCustomer(route) ==
    \A j, k \in 1 .. Len(route) :
        j # k /\ route[j] = route[k] => route[j] = 0

\* C27: within one trip no customer appears more than once, and a customer
\* that receives less than its remaining demand is the last one of the trip:
\* the trip closes right after that visit, so a trip has at most one such
\* customer.
C27_TripShape ==
    /\ [](/\ \A t \in 1 .. Len(routes) : NoRepeatedCustomer(routes[t])
          /\ NoRepeatedCustomer(current_route))
    /\ [][pc = "select" /\ current_location' # current_location =>
              /\ \A k \in 1 .. Len(current_route) :
                     current_route[k] # current_location'
              /\ current_load' - current_load
                     < remaining_demand[current_location'] => pc' = "close"]_vars
    /\ [][pc = "close" /\ Len(current_route) > 1 =>
              routes' = Append(routes, Append(current_route, 0))]_vars

\* a closed trip with two customers, the second of which received less than
\* its demand
C27_Witness ==
    /\ pc = "while"
    /\ Len(routes) = 1
    /\ Len(routes[1]) = 4
    /\ Len(deliveries[1]) = 2
    /\ deliveries[1][2][1] = routes[1][3]
    /\ deliveries[1][2][2] < demand_dict[routes[1][3]]
    /\ deliveries[1][1][2] = demand_dict[routes[1][2]]

\* all queried distances are finite and the capacity exceeds the tolerance
TripCountScenario == Terminated /\ FullyPopulated /\ capacity > Eps

\* C28 (as stated): with finite distances and capacity above the tolerance,
\* every trip except the last delivers exactly the capacity, the number of
\* trips is ceil(total demand / capacity), and the number of trips started
\* is the number of trips in the route set.
C28_TripCountExact ==
    TripCountScenario =>
        /\ \A t \in 1 .. Len(deliveries) - 1 :
               TripDelivered(deliveries[t]) = capacity
        /\ Len(routes) = CeilDiv(TotalDemand, capacity)
        /\ trips_made_count = Len(routes)

\* C28 (amended): with finite distances and capacity above the tolerance,
\* every trip except the last delivers the capacity to within one tolerance,
\* so n trips deliver more than (n - 1) * (capacity - tolerance) and at most
\* n * capacity; for quantities that are whole units this is
\* n = ceil(total demand / capacity).  The number of trips started is n.
C28_TripCountWithinEps ==
    [](TripCountScenario =>
           /\ Len(deliveries) = Len(routes)
           /\ \A t \in 1 .. Len(deliveries) - 1 :
                  /\ TripDelivered(deliveries[t]) >= capacity - Eps
                  /\ TripDelivered(deliveries[t]) <= capacity
           /\ TotalDelivered <= Len(routes) * capacity
           /\ Len(routes) >= 1 =>
                  (Len(routes) - 1) * (capacity - Eps) < TotalDelivered
           /\ Len(routes) = 0 <=> TotalDemand = 0
           /\ unit = "whole" => Len(routes) = CeilDiv(TotalDemand, capacity)
           /\ trips_made_count = Len(routes))

\* two trips that each stop one tolerance short of a customer's demand,
\* where the total demand divided by the capacity is more than two
C28_Witness ==
    /\ pc = "returned"
    /\ FullyPopulated
    /\ unit = "micro"
    /\ capacity = 2
    /\ Len(routes) = 2
    /\ trips_made_count = 2
    /\ CeilDiv(TotalDemand, capacity) = 3

\* both methods have returned on the instance
BothReturned == pc = "returned" /\ naive_pc = "done"

\* C29 (as stated): on one instance with finite distances, capacity > 0 and
\* a non-negative demand for every customer, the heuristic's total unload
\* time equals the baseline's, both being the unload rate times the total
\* demand, so the objectives differ by the difference of the travel times.
C29_EqualUnloadTime ==
    BothReturned =>
        /\ total_unload_time = unload_t_per_unit * total_unload
        /\ total_unload_time = unload_t_per_unit * DemandOfMap
        /\ ret[1] - naive_ret[1] = total_travel_time - NaiveDrive

\* C29 (amended): the baseline's unload time is the unload rate times the
\* total demand; the heuristic's is the unload rate times the quantity it
\* delivered, which is lower by at most one tolerance per customer and equal
\* for quantities that are whole units; the objectives differ by the
\* difference of the travel times plus that of the unload times.
C29_UnloadTimeWithinEps ==
    BothReturned =>
        /\ unload_t_per_unit * total_unload = unload_t_per_unit * DemandOfMap
        /\ total_unload_time = unload_t_per_unit * TotalDelivered
        /\ total_unload_time <= unload_t_per_unit * total_unload
        /\ unload_t_per_unit * total_unload - total_unload_time
               <= unload_t_per_unit * Eps * Cardinality(S \ {0})
        /\ unit = "whole" => total_unload_time = unload_t_per_unit * total_unload
        /\ ret[1] - naive_ret[1] =
               (total_travel_time - NaiveDrive)
               + (total_unload_time - unload_t_per_unit * total_unload)

\* both have returned where the heuristic left a remainder within the
\* tolerance undelivered and made fewer trips than the baseline
C29_Witness ==
    /\ BothReturned
    /\ unit = "micro"
    /\ total_unload_time > 0
    /\ total_unload_time < unload_t_per_unit * total_unload
    /\ total_travel_time < NaiveDrive

\* C30: for every vehicle count K >= 1, every trip of the route set is in
\* exactly one vehicle's list of the reported assignment (vehicle_1 ..
\* vehicle_5): each trip is at its round-robin place and the lists hold as
\* many trips as the route set; so the per-vehicle travel times of the report
\* add up to the total travel time.
C30_ReportedAssignmentComplete ==
    pc = "returned" =>
        /\ \A i \in 0 .. Len(routes) - 1 :
               LET v == (i % V_count) + 1
                   j == (i \div V_count) + 1
               IN  /\ v \in DOMAIN output_vehicle_routes_for_1_to_5
                   /\ j <= Len(output_vehicle_routes_for_1_to_5[v])
                   /\ output_vehicle_routes_for_1_to_5[v][j] = routes[i + 1]
        /\ SumSeq([v \in 1 .. ReportedVehicles |->
                     Len(output_vehicle_routes_for_1_to_5[v])]) = Len(routes)
        /\ PlusSeq(vehicle_total_times) = total_travel_time
====
